---- MODULE Spec2Model ----
(***************************************************************************)
(* Digiplay Gaming SDK (src/digiplay_gaming_sdk.py): the wallet, the       *)
(* transaction build / sign / broadcast pipeline with its retry loop, and  *)
(* the token manager, and the blockchain event listener's polling loop.   *)
(*                                                                         *)
(* Python objects live in a heap (a sequence of dicts, a reference is an   *)
(* index), so that in-place mutation and aliasing are visible.  asyncio    *)
(* is cooperative: a coroutine runs without interruption from one await    *)
(* that really suspends to the next, so one action is one such stretch.    *)
(* Amounts and fees are counted in thousandths of a coin.                  *)
(***************************************************************************)
EXTENDS Integers, Sequences, FiniteSets, TLC

\* ------------------------------------------------------------------ bounds
MaxAttempts == 3        \* Config.RETRY_ATTEMPTS ranges over 0..MaxAttempts
MaxNow == 2             \* the clock runs over 0..MaxNow ticks
TicksPerSecond == 2     \* clock ticks per second of time.time()
NumCalls == 2           \* send_payment invocations of the concurrent runs
MaxObjects == 2         \* dicts the direct-call runs may allocate
MaxFetches == 3         \* fetches one run of the listener may begin
NumTasks == 2           \* start_listening() invocations of one run
MaxBatch == 2           \* events in one fetched batch
MaxTokens == 2          \* tokens the token-manager runs may create
MaxWallets == 4         \* Wallet objects the wallet runs may construct

\* ------------------------------------------------------- program constants
DefaultAttempts == 3    \* Config.RETRY_ATTEMPTS as the class defines it
RETRY_DELAY == 3
EVENT_POLL_INTERVAL == 10
DefaultFee == 1         \* fee: float = 0.001, in thousandths
ErrorStatus == 400      \* raise_for_status() raises from this status on

None == "<None>"

\* --------------------------------------------------------------- wallet
\* Wallet._create_new_wallet
_create_new_wallet ==
    [private_key |-> "securely_generated_private_key",
     address |-> "D8SampleAddress1234567890"]

\* Wallet._generate_address_from_key
_generate_address_from_key(private_key) == "D8DerivedAddressFromKey"

\* Python truth value of an Optional[str]
Truthy(s) == s # None /\ s # ""

\* Wallet.__init__
WalletInit(private_key) ==
    IF Truthy(private_key)
    THEN [private_key |-> private_key,
          address |-> _generate_address_from_key(private_key)]
    ELSE _create_new_wallet

Keys == {None, "", "player_key", "securely_generated_private_key"}

\* ------------------------------------------------------------ time.time()
\* int(time.time()): whole seconds of a clock read in ticks
Timestamp(ticks) == ticks \div TicksPerSecond


\* ------------------------------------------------------------------ state
VARIABLES
    RETRY_ATTEMPTS,  \* Config.RETRY_ATTEMPTS
    wallet,          \* DigiplayGamingSDK.wallet, shared by the managers
    now,             \* the wall clock, in ticks
    heap,            \* the dicts allocated so far; a reference is an index
    pc,              \* where each send_payment invocation stands
    signed_tx,       \* send_payment's local signed_tx (a reference, 0 = unset)
    attempt,         \* broadcast_transaction's loop variable
    e,               \* the exception bound by "except Exception as e"
    outcome,         \* what each send_payment invocation returned or raised
    args,            \* history: the arguments of each invocation
    trace,           \* history: the stages and I/O events of each invocation
    sent,            \* history: the JSON payloads each invocation posted
    lastError,       \* history: the error of the latest failed attempt
    okBody,          \* history: the body of the response that was accepted
    built,           \* history: one entry per dict create_transaction returned
    last,            \* history: the most recent direct call and its result
    arg              \* the arguments the direct calls of a run are made with

txVars == <<RETRY_ATTEMPTS, wallet, now, heap, pc, signed_tx, attempt, e, outcome,
            args, trace, sent, lastError, okBody, built, last, arg>>

VARIABLES
    running,         \* BlockchainEventListener.running
    lpc,             \* where each start_listening invocation stands
    fetches,         \* history: the fetches each invocation has begun
    lastBatch,       \* history: the latest batch fetched and the events of
                     \*          it that were passed to the callback
    stopped,         \* history: stop_listening() ran while running and no
                     \*          start_listening() has set the flag since
    stoppedIn,       \* history: where the loops stood at that stop
    misuse,          \* history: start_listening() was invoked while the flag
                     \*          was set or another invocation had yet to run
    lastCallStop,    \* history: the latest call on the listener was
                     \*          stop_listening()
    halted           \* history: the loops that were alive when a
                     \*          stop_listening() cleared the flag

lVars == <<running, lpc, fetches, lastBatch, stopped, stoppedIn, misuse, lastCallStop,
           halted>>

VARIABLES
    tokens,          \* the token dicts that create_token has returned
    tokenLast,       \* the latest call of the token manager and its result
    wallets          \* the Wallet objects constructed, each with the
                     \* private_key argument it was constructed from

kVars == <<tokens, tokenLast, wallets>>
vars == <<txVars, lVars, kVars>>

Calls == 1..NumCalls

\* ------------------------------------------------------------ exceptions
NoExc == [type |-> "none", msg |-> "", cause |-> "none"]
Exc(type, msg, cause) == [type |-> type, msg |-> msg, cause |-> cause]

Returned(v) == [raised |-> FALSE, value |-> v, exc |-> NoExc]
Raised(x) == [raised |-> TRUE, value |-> 0, exc |-> x]

\* ------------------------------------------------------ TransactionManager
NoDict == [none |-> TRUE]

\* a Python dict with d[k] = v applied
SetItem(d, k, v) == [key \in DOMAIN d \cup {k} |-> IF key = k THEN v ELSE d[key]]

\* An argument that is no string: an object whose __repr__ raises.
Unprintable == "<object whose __repr__ raises>"

\* (mutant) a build that stamps a per-call nonce into the dict
create_transaction_Nonce(to_address, amount, fee) ==
    Returned([from |-> wallet.address, to |-> to_address, amount |-> amount,
              fee |-> fee, timestamp |-> Timestamp(now), nonce |-> Len(heap)])

\* TransactionManager.create_transaction: the dict it returns, or the
\* exception of its try body, which the handler logs and re-raises.  The try
\* body builds the dict and formats it for logger.debug, which raises when an
\* argument cannot be printed.
create_transaction(to_address, amount, fee) ==
    IF to_address = Unprintable
    THEN Raised(Exc("RuntimeError", "__repr__", "none"))
    ELSE Returned([from |-> wallet.address,
                   to |-> to_address,
                   amount |-> amount,
                   fee |-> fee,
                   timestamp |-> Timestamp(now)])

\* TransactionManager.sign_transaction on the dict that `transaction` refers
\* to in heap h (0 is None, which supports no item assignment): the heap
\* afterwards and the reference returned, or the exception re-raised
sign_transaction(h, transaction) ==
    IF transaction = 0
    THEN [heap |-> h, res |-> Raised(Exc("TypeError", "item assignment", "none"))]
    ELSE [heap |-> [h EXCEPT ![transaction] =
                        SetItem(@, "signature", "signed_with_private_key")],
          res |-> Returned(transaction)]

\* ---------------------------------------------------- the remote endpoint
\* What one POST to {DIGIBYTE_API_URL}/broadcast can end in: no connection,
\* no answer within timeout=10, or a response with a status and a body.
Statuses == {200, 201, 404, 503}
Bodies == {"{\"txid\": \"a1\"}", "{\"txid\": \"a2\"}", "<html>"}

Replies ==
    {[kind |-> "network", status |-> 0, body |-> ""],
     [kind |-> "timeout", status |-> 0, body |-> ""]}
    \cup {[kind |-> "response", status |-> st, body |-> b] : st \in Statuses, b \in Bodies}

\* response.json(): the parsed body, or the error of a body that is no JSON
ParseJson(body) ==
    CASE body = "{\"txid\": \"a1\"}" -> Returned([txid |-> "a1"])
      [] body = "{\"txid\": \"a2\"}" -> Returned([txid |-> "a2"])
      [] OTHER -> Raised(Exc("ContentTypeError", body, "none"))

\* One pass through the try body of broadcast_transaction for a reply:
\* session.post, response.raise_for_status(), await response.json()
TryPost(reply) ==
    CASE reply.kind = "network" -> Raised(Exc("ClientConnectionError", "", "none"))
      [] reply.kind = "timeout" -> Raised(Exc("TimeoutError", "", "none"))
      [] reply.status >= ErrorStatus -> Raised(Exc("ClientResponseError", "", "none"))
      [] OTHER -> ParseJson(reply.body)

\* raise Exception("Transaction broadcast failed.") after the for loop
ExhaustedError == Exc("Exception", "Transaction broadcast failed.", "none")

\* ------------------------------------------------------------ history events
Ev(name) == [ev |-> name, secs |-> 0]
SleepEv(secs) == [ev |-> "sleep", secs |-> secs]

NoOutcome == [kind |-> "none", value |-> "", exc |-> NoExc]
ReturnOutcome(data) == [kind |-> "returned", value |-> data.txid, exc |-> NoExc]
RaiseOutcome(x) == [kind |-> "raised", value |-> "", exc |-> x]

\* (mutants) a loop that runs one iteration too few, one too many, or that
\* tests its bound only after the first iteration
InRange_OneLess(i) == i < RETRY_ATTEMPTS - 1
InRange_OneMore(i) == i <= RETRY_ATTEMPTS
InRange_AtLeastOnce(i) == i = 0 \/ i < RETRY_ATTEMPTS

\* "for attempt in range(Config.RETRY_ATTEMPTS)": whether the loop runs an
\* iteration with index i
InRange(i) == i < RETRY_ATTEMPTS

\* broadcast_transaction from the head of its for loop, about to take index i,
\* with signed_transaction referring to dict ref of heap h: it either posts
\* the dict and suspends on the request, or leaves the loop and raises.
LoopHead(i, ref, h) ==
    IF InRange(i)
    THEN [pc |-> "posting", attempt |-> i, outcome |-> NoOutcome,
          events |-> <<Ev("post")>>, payload |-> {h[ref]}]
    ELSE [pc |-> "raised", attempt |-> i, outcome |-> RaiseOutcome(ExhaustedError),
          events |-> <<Ev("raise")>>, payload |-> {}]

\* (mutant) a send_payment that swallows the exception of the build and goes
\* on to broadcast what it has
send_payment_Swallows(to_address, amount) ==
    LET tx == create_transaction(to_address, amount, DefaultFee)
        h1 == Append(heap, IF tx.raised THEN NoDict ELSE tx.value)
        sg == sign_transaction(h1, Len(h1))
        br == LoopHead(0, sg.res.value, sg.heap)
    IN  [heap |-> sg.heap, built |-> built, signed_tx |-> sg.res.value,
         pc |-> br.pc, attempt |-> br.attempt, outcome |-> br.outcome,
         events |-> <<Ev("build"), Ev("sign")>> \o br.events,
         payload |-> br.payload]

\* (mutant) a send_payment whose manager keeps one transaction dict and
\* refills it for every payment
send_payment_SharedDict(to_address, amount) ==
    LET tx == create_transaction(to_address, amount, DefaultFee)
    IN  IF tx.raised
        THEN [heap |-> heap, built |-> built, signed_tx |-> 0, pc |-> "raised",
              attempt |-> 0, outcome |-> RaiseOutcome(tx.exc),
              events |-> <<Ev("build")>>, payload |-> {}]
        ELSE
        LET h1 == IF Len(heap) = 0 THEN <<tx.value>> ELSE [heap EXCEPT ![1] = tx.value]
            b1 == Append(built, [to |-> to_address, amount |-> amount,
                                 fee |-> DefaultFee, at |-> now, rec |-> tx.value])
            sg == sign_transaction(h1, 1)
            br == LoopHead(0, sg.res.value, sg.heap)
        IN  [heap |-> sg.heap, built |-> b1, signed_tx |-> sg.res.value,
             pc |-> br.pc, attempt |-> br.attempt, outcome |-> br.outcome,
             events |-> <<Ev("build"), Ev("sign")>> \o br.events,
             payload |-> br.payload]

\* DigiplayGamingSDK.send_payment up to its first suspension: build, sign and
\* enter broadcast_transaction.  An exception of a stage leaves the coroutine.
send_payment(to_address, amount) ==
    LET tx == create_transaction(to_address, amount, DefaultFee)
    IN  IF tx.raised
        THEN [heap |-> heap, built |-> built, signed_tx |-> 0,
              pc |-> "raised", attempt |-> 0, outcome |-> RaiseOutcome(tx.exc),
              events |-> <<Ev("build")>>, payload |-> {}]
        ELSE
        LET h1 == Append(heap, tx.value)
            ref == Len(h1)
            b1 == Append(built, [to |-> to_address, amount |-> amount,
                                 fee |-> DefaultFee, at |-> now, rec |-> tx.value])
            sg == sign_transaction(h1, ref)
        IN  IF sg.res.raised
            THEN [heap |-> sg.heap, built |-> b1, signed_tx |-> 0,
                  pc |-> "raised", attempt |-> 0, outcome |-> RaiseOutcome(sg.res.exc),
                  events |-> <<Ev("build"), Ev("sign")>>, payload |-> {}]
            ELSE
            LET br == LoopHead(0, sg.res.value, sg.heap)
            IN  [heap |-> sg.heap, built |-> b1, signed_tx |-> sg.res.value,
                 pc |-> br.pc, attempt |-> br.attempt, outcome |-> br.outcome,
                 events |-> <<Ev("build"), Ev("sign")>> \o br.events,
                 payload |-> br.payload]

\* A caller runs send_payment(to_address, amount) as invocation c.
SendPayment(c, to_address, amount) ==
    /\ pc[c] = "idle"
    /\ LET r == send_payment(to_address, amount)
       IN  /\ heap' = r.heap
           /\ built' = r.built
           /\ signed_tx' = [signed_tx EXCEPT ![c] = r.signed_tx]
           /\ pc' = [pc EXCEPT ![c] = r.pc]
           /\ attempt' = [attempt EXCEPT ![c] = r.attempt]
           /\ outcome' = [outcome EXCEPT ![c] = r.outcome]
           /\ trace' = [trace EXCEPT ![c] = r.events]
           /\ sent' = [sent EXCEPT ![c] = r.payload]
    /\ args' = [args EXCEPT ![c] = [to |-> to_address, amount |-> amount]]
    /\ UNCHANGED <<RETRY_ATTEMPTS, wallet, now, e, lastError, okBody, last, arg, lVars, kVars>>

\* (mutant) a broadcast that treats an accepted submission like a failed one
\* and goes round the loop again
on_reply_NoReturn(c, reply) ==
    LET r == TryPost(reply)
    IN  [pc |-> "sleeping", e |-> e[c], outcome |-> NoOutcome,
         events |-> IF r.raised THEN <<Ev("fail"), SleepEv(RETRY_DELAY)>>
                    ELSE <<Ev("ok"), SleepEv(RETRY_DELAY)>>,
         lastError |-> IF r.raised THEN r.exc.type ELSE lastError[c],
         okBody |-> IF r.raised THEN okBody[c] ELSE reply.body]

\* The request of invocation c ends with `reply`: broadcast_transaction
\* returns the parsed body, or logs the failure and starts its sleep.
on_reply(c, reply) ==
    LET r == TryPost(reply)
    IN  IF r.raised
        THEN [pc |-> "sleeping", e |-> r.exc.type, outcome |-> NoOutcome,
              events |-> <<Ev("fail"), SleepEv(RETRY_DELAY)>>,
              lastError |-> r.exc.type, okBody |-> okBody[c]]
        ELSE [pc |-> "returned", e |-> e[c], outcome |-> ReturnOutcome(r.value),
              events |-> <<Ev("ok"), Ev("return")>>,
              lastError |-> lastError[c], okBody |-> reply.body]

PostCompletes(c, reply) ==
    /\ pc[c] = "posting"
    /\ LET r == on_reply(c, reply)
       IN  /\ pc' = [pc EXCEPT ![c] = r.pc]
           /\ e' = [e EXCEPT ![c] = r.e]
           /\ outcome' = [outcome EXCEPT ![c] = r.outcome]
           /\ trace' = [trace EXCEPT ![c] = @ \o r.events]
           /\ lastError' = [lastError EXCEPT ![c] = r.lastError]
           /\ okBody' = [okBody EXCEPT ![c] = r.okBody]
    /\ UNCHANGED <<RETRY_ATTEMPTS, wallet, now, heap, signed_tx, attempt, args,
                   sent, built, last, arg, lVars, kVars>>

\* asyncio.sleep(Config.RETRY_DELAY) of invocation c is over: the except block
\* ends (e is unbound) and the for loop takes its next index.
SleepEnds(c) ==
    /\ pc[c] = "sleeping"
    /\ LET r == LoopHead(attempt[c] + 1, signed_tx[c], heap)
       IN  /\ pc' = [pc EXCEPT ![c] = r.pc]
           /\ attempt' = [attempt EXCEPT ![c] = r.attempt]
           /\ outcome' = [outcome EXCEPT ![c] = r.outcome]
           /\ trace' = [trace EXCEPT ![c] = @ \o r.events]
           /\ sent' = [sent EXCEPT ![c] = @ \cup r.payload]
    /\ e' = [e EXCEPT ![c] = None]
    /\ UNCHANGED <<RETRY_ATTEMPTS, wallet, now, heap, signed_tx, args, lastError,
                   okBody, built, last, arg, lVars, kVars>>

\* The wall clock advances.
Tick ==
    /\ now < MaxNow
    /\ now' = now + 1
    /\ UNCHANGED <<RETRY_ATTEMPTS, wallet, heap, pc, signed_tx, attempt, e, outcome,
                   args, trace, sent, lastError, okBody, built, last, arg, lVars, kVars>>

\* ------------------------------------------ direct calls of the managers
Addresses == {"", "D8RecipientAddress0987654321"}
Amounts == {-1, 0, 100}
Fees == {-1, 0, DefaultFee}

NoArg == [to |-> "", amount |-> 0, fee |-> 0]
NoCall == [op |-> "none", ref |-> 0, before |-> NoDict, raised |-> FALSE, ret |-> 0]

\* A caller runs tx_manager.create_transaction(to_address, amount, fee) with
\* the arguments of this run.
CallCreateTransaction ==
    /\ Len(heap) < MaxObjects
    /\ LET r == create_transaction(arg.to, arg.amount, arg.fee)
           call == [NoCall EXCEPT !.op = "create_transaction"]
       IN  IF r.raised
           THEN /\ last' = [call EXCEPT !.raised = TRUE]
                /\ UNCHANGED <<heap, built>>
           ELSE /\ heap' = Append(heap, r.value)
                /\ built' = Append(built, [to |-> arg.to, amount |-> arg.amount,
                                           fee |-> arg.fee, at |-> now, rec |-> r.value])
                /\ last' = [call EXCEPT !.ret = Len(heap) + 1]
    /\ UNCHANGED <<RETRY_ATTEMPTS, wallet, now, pc, signed_tx, attempt, e, outcome,
                   args, trace, sent, lastError, okBody, arg, lVars, kVars>>

\* A caller runs tx_manager.sign_transaction(transaction) on a dict it holds,
\* or on None.
CallSignTransaction(transaction) ==
    /\ transaction \in 0..Len(heap)
    /\ LET r == sign_transaction(heap, transaction)
           call == [NoCall EXCEPT !.op = "sign_transaction", !.ref = transaction,
                                  !.before = IF transaction = 0 THEN NoDict
                                             ELSE heap[transaction]]
       IN  /\ heap' = r.heap
           /\ last' = IF r.res.raised
                      THEN [call EXCEPT !.raised = TRUE]
                      ELSE [call EXCEPT !.ret = r.res.value]
    /\ UNCHANGED <<RETRY_ATTEMPTS, wallet, now, pc, signed_tx, attempt, e, outcome,
                   args, trace, sent, lastError, okBody, built, arg, lVars, kVars>>

\* ------------------------------------------------ BlockchainEventListener

Tasks == 1..NumTasks
Events == {"e1", "e2"}
RECURSIVE SeqsUpTo(_)
SeqsUpTo(n) == IF n = 0 THEN {<<>>}
               ELSE LET S == SeqsUpTo(n - 1)
                    IN  S \cup {Append(q, x) : q \in {r \in S : Len(r) = n - 1}, x \in Events}
Batches == SeqsUpTo(MaxBatch)
SmallBatches == {b \in Batches : Len(b) <= 1}
NoBatch == [task |-> 0, events |-> <<>>, passed |-> <<>>, error |-> "none", raisedAt |-> 0]

\* What the caller's callback does with one event: return, raise, or call
\* stop_listening() and return.
Behaviours == {"return", "raise", "stop"}

Sum(f) == LET RECURSIVE S(_)
              S(D) == IF D = {} THEN 0
                      ELSE LET x == CHOOSE y \in D : TRUE IN f[x] + S(D \ {x})
          IN  S(DOMAIN f)

\* (mutant) a dispatch that hands the batch over last event first
Dispatch_LastFirst(events, does, i) ==
    LET n == Len(events)
    IN  [passed |-> [k \in 1..n |-> events[n + 1 - k]], raised |-> FALSE, stop |-> FALSE]

\* (mutant) a dispatch that catches the callback's exception per event and
\* goes on with the next event
Dispatch_PerEvent(events, does, i) ==
    [passed |-> events,
     raised |-> \E k \in DOMAIN does : does[k] = "raise",
     stop |-> \E k \in DOMAIN does : does[k] = "stop"]

\* "for event in events: self.callback(event)" from index i on, the callback
\* behaving as does[i] on the i-th event: the events passed to it, whether it
\* raised, and whether it called stop_listening()
RECURSIVE Dispatch(_, _, _)
Dispatch(events, does, i) ==
    IF i > Len(events)
    THEN [passed |-> <<>>, raised |-> FALSE, stop |-> FALSE]
    ELSE IF does[i] = "raise"
         THEN [passed |-> <<events[i]>>, raised |-> TRUE, stop |-> FALSE]
         ELSE LET rest == Dispatch(events, does, i + 1)
              IN  [passed |-> <<events[i]>> \o rest.passed,
                   raised |-> rest.raised,
                   stop |-> (does[i] = "stop") \/ rest.stop]

\* the first event on which the callback raises, 0 if on none
FirstRaise(does) ==
    IF \E i \in DOMAIN does : does[i] = "raise"
    THEN CHOOSE i \in DOMAIN does :
            does[i] = "raise" /\ \A j \in DOMAIN does : does[j] = "raise" => i <= j
    ELSE 0

\* (mutant) a loop whose handler lets the exception of a cycle leave the
\* coroutine
AfterCycle_Propagates(error) == IF error = "none" THEN "sleeping" ELSE "crashed"

\* "except Exception as e: logger.exception(...)" and the sleep after it:
\* where the loop stands after a cycle that ended with `error`
AfterCycle(error) == "sleeping"

\* (mutant) a loop that does not consult the flag
LoopTest_Always == TRUE

\* "while self.running": whether the loop goes round again
LoopTest == running

\* (mutant) a stop_listening that leaves the flag set
stop_listening_NoOp == TRUE

\* BlockchainEventListener.stop_listening: the value it gives the flag
stop_listening == FALSE

LivePcs == {lpc[t] : t \in {u \in Tasks : lpc[u] \in {"fetching", "sleeping"}}}

\* A caller invokes start_listening(): the coroutine exists, nothing ran yet.
StartListening(t) ==
    /\ lpc[t] = "none"
    /\ lpc' = [lpc EXCEPT ![t] = "created"]
    /\ misuse' = (misuse \/ running \/ \E u \in Tasks : lpc[u] = "created")
    /\ lastCallStop' = FALSE
    /\ UNCHANGED <<running, fetches, lastBatch, stopped, stoppedIn, halted, txVars, kVars>>

\* The coroutine's first stretch: running = True, the loop test, and the
\* first call of _get_blockchain_events(), on which it suspends.
StartBody(t) ==
    /\ lpc[t] = "created"
    /\ Sum(fetches) < MaxFetches
    /\ running' = TRUE
    /\ lpc' = [lpc EXCEPT ![t] = "fetching"]
    /\ fetches' = [fetches EXCEPT ![t] = @ + 1]
    /\ stopped' = FALSE
    /\ stoppedIn' = {}
    /\ UNCHANGED <<lastBatch, misuse, lastCallStop, halted, txVars, kVars>>

\* The fetch of invocation t returns `events`; each is passed to the callback,
\* an exception of the callback is caught and logged, and the loop sleeps.
FetchReturns(t, events, does) ==
    /\ lpc[t] = "fetching"
    /\ LET d == Dispatch(events, does, 1)
           err == IF d.raised THEN "handler" ELSE "none"
       IN  /\ lastBatch' = [task |-> t, events |-> events, passed |-> d.passed,
                            error |-> err, raisedAt |-> FirstRaise(does)]
           /\ lpc' = [lpc EXCEPT ![t] = AfterCycle(err)]
           /\ lastCallStop' = IF d.stop THEN TRUE ELSE lastCallStop
           /\ running' = IF d.stop THEN stop_listening ELSE running
           /\ stopped' = IF d.stop /\ running THEN TRUE ELSE stopped
           /\ stoppedIn' = IF d.stop /\ running
                           THEN (LivePcs \ {"fetching"}) \cup {"dispatching"}
                                \cup {lpc[u] : u \in {v \in Tasks \ {t} : lpc[v] = "fetching"}}
                           ELSE stoppedIn
           /\ halted' = IF d.stop /\ running
                        THEN halted \cup {u \in Tasks : lpc[u] \in {"fetching", "sleeping"}}
                        ELSE halted
    /\ UNCHANGED <<fetches, misuse, txVars, kVars>>

\* The fetch of invocation t raises: caught and logged, and the loop sleeps.
FetchRaises(t) ==
    /\ lpc[t] = "fetching"
    /\ lpc' = [lpc EXCEPT ![t] = AfterCycle("fetch")]
    /\ lastBatch' = [NoBatch EXCEPT !.task = t, !.error = "fetch"]
    /\ UNCHANGED <<running, fetches, stopped, stoppedIn, misuse, lastCallStop, halted,
                   txVars, kVars>>

\* asyncio.sleep(Config.EVENT_POLL_INTERVAL) of invocation t is over: the loop
\* test, and either the next fetch or the end of the coroutine.
SleepOver(t) ==
    /\ lpc[t] = "sleeping"
    /\ IF LoopTest
       THEN /\ Sum(fetches) < MaxFetches
            /\ lpc' = [lpc EXCEPT ![t] = "fetching"]
            /\ fetches' = [fetches EXCEPT ![t] = @ + 1]
       ELSE /\ lpc' = [lpc EXCEPT ![t] = "done"]
            /\ UNCHANGED fetches
    /\ UNCHANGED <<running, lastBatch, stopped, stoppedIn, misuse, lastCallStop, halted,
                   txVars, kVars>>

\* Some other context calls stop_listening().
StopListening ==
    /\ running' = stop_listening
    /\ stopped' = IF running THEN TRUE ELSE stopped
    /\ stoppedIn' = IF running THEN LivePcs ELSE stoppedIn
    /\ lastCallStop' = TRUE
    /\ halted' = IF running
                 THEN halted \cup {u \in Tasks : lpc[u] \in {"fetching", "sleeping"}}
                 ELSE halted
    /\ UNCHANGED <<lpc, fetches, lastBatch, misuse, txVars, kVars>>

\* ------------------------------------------------------- specifications
SdkKeys == {None, "player_key"}

TxInit ==
    /\ RETRY_ATTEMPTS \in 0..MaxAttempts
    /\ wallet \in {WalletInit(k) : k \in SdkKeys}
    /\ now = 0
    /\ heap = <<>>
    /\ signed_tx = [c \in Calls |-> 0]
    /\ attempt = [c \in Calls |-> 0]
    /\ e = [c \in Calls |-> None]
    /\ outcome = [c \in Calls |-> NoOutcome]
    /\ args = [c \in Calls |-> [to |-> "", amount |-> 0]]
    /\ trace = [c \in Calls |-> <<>>]
    /\ sent = [c \in Calls |-> {}]
    /\ lastError = [c \in Calls |-> None]
    /\ okBody = [c \in Calls |-> ""]
    /\ built = <<>>
    /\ last = NoCall

NoTokenCall == [op |-> "none", token_name |-> "", total_supply |-> 0, amount |-> 0,
                raised |-> FALSE, ret |-> NoDict]

ManagersInit ==
    /\ tokens = <<>>
    /\ tokenLast = NoTokenCall
    /\ wallets = <<>>

ListenerInit ==
    /\ running = FALSE
    /\ lpc = [t \in Tasks |-> "none"]
    /\ fetches = [t \in Tasks |-> 0]
    /\ lastBatch = NoBatch
    /\ stopped = FALSE
    /\ stoppedIn = {}
    /\ misuse = FALSE
    /\ lastCallStop = FALSE
    /\ halted = {}

\* One send_payment invocation, from the call to its result.
Init ==
    /\ TxInit
    /\ arg = NoArg
    /\ ListenerInit
    /\ ManagersInit
    /\ pc = [c \in Calls |-> IF c = 1 THEN "idle" ELSE "unused"]

Next ==
    \/ \E c \in Calls, to_address \in Addresses \cup {Unprintable}, amount \in Amounts :
            SendPayment(c, to_address, amount)
    \/ \E c \in Calls, reply \in Replies : PostCompletes(c, reply)
    \/ \E c \in Calls : SleepEnds(c)
    \/ Tick

Spec == Init /\ [][Next]_vars

\* Direct calls of create_transaction and sign_transaction.
InitBuild ==
    /\ TxInit
    /\ arg \in [to : Addresses \cup {Unprintable}, amount : Amounts, fee : Fees]
    /\ RETRY_ATTEMPTS = DefaultAttempts
    /\ ListenerInit
    /\ ManagersInit
    /\ pc = [c \in Calls |-> "unused"]

NextBuild ==
    \/ CallCreateTransaction
    \/ \E transaction \in 0..MaxObjects : CallSignTransaction(transaction)
    \/ Tick

SpecBuild == InitBuild /\ [][NextBuild]_vars

\* One listener, its start_listening invocations and stop_listening calls.
InitPoller ==
    /\ TxInit
    /\ arg = NoArg
    /\ RETRY_ATTEMPTS = DefaultAttempts
    /\ wallet = WalletInit(None)
    /\ ListenerInit
    /\ ManagersInit
    /\ pc = [c \in Calls |-> "unused"]

NextPoller ==
    \/ \E t \in Tasks : StartListening(t)
    \/ \E t \in Tasks : StartBody(t)
    \/ \E t \in Tasks, events \in SmallBatches :
         \E does \in [1..Len(events) -> Behaviours] : FetchReturns(t, events, does)
    \/ \E t \in Tasks : FetchRaises(t)
    \/ \E t \in Tasks : SleepOver(t)
    \/ StopListening

SpecPoller == InitPoller /\ [][NextPoller]_vars

\* The same, with what the event loop guarantees: a sleep ends, and so does
\* a fetch (by returning or by raising).
FairPoller ==
    \A t \in Tasks :
        /\ WF_vars(SleepOver(t))
        /\ WF_vars(FetchRaises(t)
                   \/ \E events \in SmallBatches :
                        \E does \in [1..Len(events) -> Behaviours] :
                            FetchReturns(t, events, does))

SpecPollerFair == SpecPoller /\ FairPoller

\* One polling loop and the batches it fetches and dispatches.
InitDispatch ==
    /\ TxInit
    /\ RETRY_ATTEMPTS = DefaultAttempts
    /\ wallet = WalletInit(None)
    /\ arg = NoArg
    /\ ListenerInit
    /\ ManagersInit
    /\ pc = [c \in Calls |-> "unused"]

NextDispatch ==
    \/ StartListening(1)
    \/ StartBody(1)
    \/ \E events \in Batches :
         \E does \in [1..Len(events) -> Behaviours] : FetchReturns(1, events, does)
    \/ FetchRaises(1)
    \/ SleepOver(1)
    \/ StopListening

SpecDispatch == InitDispatch /\ [][NextDispatch]_vars

\* ------------------------------------------------------------ properties
Count(tr, name) == Cardinality({i \in 1..Len(tr) : tr[i].ev = name})
Only(tr, names) == SelectSeq(tr, LAMBDA x : x.ev \in names)
EndsWith(tr, a, b) == Len(tr) >= 2 /\ tr[Len(tr) - 1].ev = a /\ tr[Len(tr)].ev = b

\* send_payment invocation c got as far as calling broadcast_transaction
Broadcasting(c) == signed_tx[c] # 0
Ended(c) == pc[c] \in {"returned", "raised"}

\* posts and sleeps alternate, a post first and a post last
Alternating(io) ==
    /\ Len(io) % 2 = 1
    /\ \A i \in 1..Len(io) : io[i].ev = IF i % 2 = 1 THEN "post" ELSE "sleep"

C2_AllFail ==
    \A c \in Calls :
        /\ Count(trace[c], "post") <= RETRY_ATTEMPTS
        /\ (Broadcasting(c) /\ Ended(c) /\ Count(trace[c], "ok") = 0) =>
                /\ pc[c] = "raised"
                /\ outcome[c] = RaiseOutcome(ExhaustedError)
                /\ Count(trace[c], "post") = RETRY_ATTEMPTS
                /\ Count(trace[c], "fail") = RETRY_ATTEMPTS

C2_Witness ==
    \E c \in Calls :
        /\ pc[c] = "raised"
        /\ RETRY_ATTEMPTS = 3
        /\ Count(trace[c], "fail") = 3

\* C3: with RETRY_ATTEMPTS = 0 a broadcast has failed with the exhausted
\* failure as soon as it is entered, without a submission and without a wait.
C3_ZeroAttempts ==
    \A c \in Calls :
        (RETRY_ATTEMPTS = 0 /\ Broadcasting(c)) =>
            /\ pc[c] = "raised"
            /\ outcome[c] = RaiseOutcome(ExhaustedError)
            /\ Count(trace[c], "post") = 0
            /\ Count(trace[c], "sleep") = 0
            /\ sent[c] = {}

C3_Witness ==
    \E c \in Calls : RETRY_ATTEMPTS = 0 /\ Broadcasting(c) /\ pc[c] = "raised"

\* the acknowledgment each JSON body of the endpoint stands for
AckOf(body) == IF body = "{\"txid\": \"a1\"}" THEN "a1"
               ELSE IF body = "{\"txid\": \"a2\"}" THEN "a2" ELSE "?"

\* C4: once a submission was accepted the broadcast has returned the
\* acknowledgment parsed from that response, and nothing follows the
\* acceptance: no further submission and no wait.
C4_ReturnOnSuccess ==
    \A c \in Calls :
        Count(trace[c], "ok") >= 1 =>
            /\ pc[c] = "returned"
            /\ outcome[c].kind = "returned"
            /\ outcome[c].value = AckOf(okBody[c])
            /\ Count(trace[c], "ok") = 1
            /\ EndsWith(trace[c], "ok", "return")

C4_Witness ==
    \E c \in Calls :
        /\ pc[c] = "returned"
        /\ Count(trace[c], "fail") = 1
        /\ Count(trace[c], "post") = 2
        /\ RETRY_ATTEMPTS = 3
        /\ outcome[c].value = "a2"

\* C5: the failure raised after all attempts failed carries the error of the
\* last failed attempt.
C5_CarriesLastError ==
    \A c \in Calls :
        (pc[c] = "raised" /\ Broadcasting(c) /\ Count(trace[c], "fail") >= 1) =>
            outcome[c].exc.cause = lastError[c]

\* C6: sign_transaction leaves the dict it was passed as it was, without a
\* signature, and returns a dict equal to it on every other key.
C6_SignDoesNotMutate ==
    (last.op = "sign_transaction" /\ ~last.raised /\ "signature" \notin DOMAIN last.before) =>
        /\ heap[last.ref] = last.before
        /\ "signature" \notin DOMAIN heap[last.ref]
        /\ \A k \in DOMAIN last.before : heap[last.ret][k] = last.before[k]

\* build, sign and submissions happen in this order
StageOrder(tr) ==
    LET st == Only(tr, {"build", "sign", "post"})
    IN  \A i \in 1..Len(st) :
            st[i].ev = IF i = 1 THEN "build" ELSE IF i = 2 THEN "sign" ELSE "post"

\* C7: send_payment builds, then signs, then broadcasts; when the build (or
\* the signing) raised, the invocation has ended with that very exception
\* and has neither signed afterwards nor submitted anything.
C7_ShortCircuit ==
    \A c \in Calls :
        /\ StageOrder(trace[c])
        /\ (pc[c] \notin {"idle", "unused"} /\ args[c].to = Unprintable) =>
                /\ pc[c] = "raised"
                /\ outcome[c].exc.type = "RuntimeError"
                /\ Count(trace[c], "sign") = 0
                /\ Count(trace[c], "post") = 0
                /\ sent[c] = {}
        /\ (pc[c] = "raised" /\ ~Broadcasting(c)) =>
                Count(trace[c], "post") = 0 /\ sent[c] = {}

C7_Witness ==
    \E c \in Calls : args[c].to = Unprintable /\ pc[c] = "raised" /\ RETRY_ATTEMPTS > 0

\* the constraints of the builder's contract on the arguments of a run
ValidInput(a) == a.to \in Addresses \ {""} /\ a.amount >= 0 /\ a.fee >= 0
InvalidInput(a) == a.to = "" \/ a.amount < 0 \/ a.fee < 0

\* C8: create_transaction raises, returning no dict, when to_address is
\* empty, amount < 0 or fee < 0, and returns for every other input.
C8_Validates ==
    /\ InvalidInput(arg) => built = <<>>
    /\ last.op = "create_transaction" =>
            /\ InvalidInput(arg) => last.raised
            /\ ValidInput(arg) => ~last.raised

\* C9: for valid arguments every dict create_transaction returned has no
\* signature, the wallet's address as from, and the arguments as to, amount
\* and fee; two returned for the same arguments at the same instant are equal.
C9_BuildFields ==
    \A i \in 1..Len(built) :
        LET b == built[i]
        IN  ValidInput(b) =>
                /\ "signature" \notin DOMAIN b.rec
                /\ b.rec.from = wallet.address
                /\ b.rec.to = b.to
                /\ b.rec.amount = b.amount
                /\ b.rec.fee = b.fee
                /\ \A j \in 1..Len(built) :
                        (built[j].to = b.to /\ built[j].amount = b.amount
                         /\ built[j].fee = b.fee /\ built[j].at = b.at)
                            => built[j].rec = b.rec

C9_Witness ==
    /\ Len(built) >= 2
    /\ ValidInput(built[1])
    /\ built[1].at = built[2].at
    /\ built[1].amount = 100
    /\ "signature" \in DOMAIN heap[1]

\* C10: while stop_listening() has run with the flag set and no
\* start_listening() has begun to run since, no loop begins a fetch.
C10_NoFetchAfterStop ==
    [][(stopped /\ stopped') => fetches' = fetches]_vars

C10_Witness ==
    /\ stopped
    /\ "fetching" \in stoppedIn
    /\ \E t \in Tasks : lpc[t] = "done" /\ fetches[t] >= 1 /\ lastBatch.task = t

\* the loops that have begun and not ended
Alive == {t \in Tasks : lpc[t] \in {"fetching", "sleeping"}}

\* C11: while stop_listening() has run with the flag set and no
\* start_listening() has begun to run since, a loop whose sleep ends ends
\* with it (so it sleeps at most once more), and every loop alive then does
\* end.
C11_StopObserved ==
    /\ [][\A t \in Tasks :
            (stopped /\ stopped' /\ lpc[t] = "sleeping" /\ lpc'[t] # "sleeping")
                => lpc'[t] = "done"]_vars
    /\ \A t \in Tasks :
            [](stopped /\ t \in Alive => <>(~stopped \/ lpc[t] = "done"))

C11_Witness ==
    /\ stopped
    /\ stoppedIn = {"sleeping"}
    /\ \E t \in Tasks : lpc[t] = "done" /\ fetches[t] >= 2

\* C12: every cycle, whether its fetch raised, its callback raised or neither,
\* ends in the sleep, and when that sleep ends with the flag still set the
\* loop begins its next fetch.
C12_ErrorsContained ==
    [][\A t \in Tasks :
            /\ (lpc[t] = "fetching" /\ lpc'[t] # "fetching") => lpc'[t] = "sleeping"
            /\ (lpc[t] = "sleeping" /\ lpc'[t] # "sleeping" /\ running
                /\ lastBatch.task = t /\ lastBatch.error # "none")
                    => (lpc'[t] = "fetching" /\ fetches'[t] = fetches[t] + 1)]_vars

C12_Witness ==
    \E t \in Tasks :
        /\ lastBatch.task = t
        /\ lastBatch.error = "handler"
        /\ lpc[t] = "fetching"
        /\ fetches[t] >= 2

IsPrefix(p, q) == Len(p) <= Len(q) /\ \A i \in 1..Len(p) : p[i] = q[i]

\* C13: the events a cycle passes to the callback are a prefix of the batch
\* it fetched, in the batch's order, and they are all passed in the stretch
\* in which the fetch returned, which ends in the sleep: no fetch begins in
\* it.  The sequence of all callback calls is therefore the concatenation,
\* in fetch order, of prefixes of the batches.
C13_InOrder ==
    /\ [](IsPrefix(lastBatch.passed, lastBatch.events))
    /\ [][lastBatch' # lastBatch =>
            /\ fetches' = fetches
            /\ lpc[lastBatch'.task] = "fetching"
            /\ lpc'[lastBatch'.task] = "sleeping"]_vars

C13_Witness ==
    /\ lastBatch.events = <<"e2", "e1">>
    /\ lastBatch.passed = <<"e2", "e1">>
    /\ fetches[1] >= 2

\* C18 as stated: of every batch fetched, every event is passed to the
\* callback, also when the callback raised on an earlier one.
C18_EveryEvent ==
    (lastBatch.task # 0 /\ lastBatch.error # "fetch") =>
        lastBatch.passed = lastBatch.events

\* C18, amended: of every batch fetched, the events up to and including the
\* first on which the callback raises are passed to it, once each and in
\* order, and none after that one; all of them when it raises on none.
C18_UpToFirstRaise ==
    (lastBatch.task # 0 /\ lastBatch.error # "fetch") =>
        /\ lastBatch.passed =
                IF lastBatch.raisedAt = 0 THEN lastBatch.events
                ELSE SubSeq(lastBatch.events, 1, lastBatch.raisedAt)
        /\ (lastBatch.error = "handler") = (lastBatch.raisedAt # 0)

C18_Witness ==
    /\ lastBatch.events = <<"e1", "e2">>
    /\ lastBatch.raisedAt = 1
    /\ lastBatch.passed = <<"e1">>
    /\ lpc[1] = "sleeping"

\* C19: as long as every start_listening() was invoked with the flag clear
\* (and no other invocation waiting to run), a loop that was alive when
\* stop_listening() cleared the flag begins no fetch any more, whatever is
\* started after the stop: two loops never poll side by side.
C19_NoResume ==
    [][~misuse' => \A t \in halted : fetches'[t] = fetches[t]]_vars

\* C20: after a stop_listening() that no call of start_listening() follows,
\* the flag is clear, also when an invocation made before the stop has yet to
\* run its first step.
C20_StopIsFinal == lastCallStop => ~running

\* C17: a RETRY_DELAY wait is taken only before a next attempt: a broadcast
\* whose RETRY_ATTEMPTS (>= 1) attempts all failed has waited exactly
\* RETRY_ATTEMPTS - 1 times, and its raise follows the last failure directly.
C17_WaitOnlyBetweenAttempts ==
    \A c \in Calls :
        (Broadcasting(c) /\ pc[c] = "raised" /\ RETRY_ATTEMPTS >= 1) =>
            /\ Count(trace[c], "sleep") = RETRY_ATTEMPTS - 1
            /\ EndsWith(trace[c], "fail", "raise")

\* ------------------------------------------- concurrent send_payment calls
\* The payments and the replies of the concurrent runs: two payments that
\* differ in both arguments, a reply that fails and a reply that succeeds.
ConcurrentPayments ==
    {[to |-> "D8RecipientAddress0987654321", amount |-> 100],
     [to |-> "", amount |-> -1]}

ConcurrentReplies ==
    {r \in Replies : \/ r.kind = "timeout"
                     \/ r.kind = "response" /\ r.status = 200 /\ r.body = "{\"txid\": \"a1\"}"}

\* Every invocation may be started at any time; all of them share the event
\* loop and the SDK object.
InitConcurrent ==
    /\ TxInit
    /\ RETRY_ATTEMPTS = DefaultAttempts
    /\ wallet = WalletInit(None)
    /\ arg = NoArg
    /\ ListenerInit
    /\ ManagersInit
    /\ pc = [c \in Calls |-> "idle"]

NextConcurrent ==
    \/ \E c \in Calls, p \in ConcurrentPayments : SendPayment(c, p.to, p.amount)
    \/ \E c \in Calls, reply \in ConcurrentReplies : PostCompletes(c, reply)
    \/ \E c \in Calls : SleepEnds(c)

SpecConcurrent == InitConcurrent /\ [][NextConcurrent]_vars

\* C14: send_payment invocations interleaved at their suspension points keep
\* apart: each has a transaction record of its own, every attempt submits the
\* record built from the invocation's own to_address and amount, a step
\* changes the position, attempt count, record and outcome of at most one
\* invocation, leaves every record that already exists as it is, and never
\* writes the wallet.
C14_Isolated ==
    /\ [](\A c \in Calls :
            /\ \A p \in sent[c] : /\ p.to = args[c].to
                                  /\ p.amount = args[c].amount
                                  /\ p.from = wallet.address
            /\ Cardinality(sent[c]) <= 1
            /\ Broadcasting(c) =>
                    /\ heap[signed_tx[c]].to = args[c].to
                    /\ heap[signed_tx[c]].amount = args[c].amount
                    /\ \A d \in Calls \ {c} : signed_tx[d] # signed_tx[c])
    /\ [][/\ Cardinality({c \in Calls :
                <<pc[c], attempt[c], outcome[c], signed_tx[c], sent[c], trace[c], args[c]>>
                # <<pc'[c], attempt'[c], outcome'[c], signed_tx'[c], sent'[c], trace'[c],
                    args'[c]>>}) <= 1
          /\ \A i \in 1..Len(heap) : heap'[i] = heap[i]
          /\ wallet' = wallet]_vars

\* two invocations with different arguments, each past a failed attempt and
\* its retry delay, one waiting for the network and one in its delay
C14_Witness ==
    \E c, d \in Calls :
        /\ args[c].to # args[d].to /\ args[c].amount # args[d].amount
        /\ pc[c] = "posting" /\ Count(trace[c], "post") >= 2
        /\ pc[d] = "sleeping" /\ Count(trace[d], "fail") >= 2

\* ------------------------------------------------------------ TokenManager
TokenNames == {"", "GOLD", Unprintable}
Supplies == {-1, 0, 1000}

\* TokenManager.create_token: the dict it returns, or the exception of its
\* try body (formatting the dict for logger.debug), logged and re-raised.
create_token(token_name, total_supply) ==
    IF token_name = Unprintable
    THEN Raised(Exc("RuntimeError", "__repr__", "none"))
    ELSE Returned([issuer |-> wallet.address,
                   token_name |-> token_name,
                   total_supply |-> total_supply,
                   timestamp |-> Timestamp(now)])

\* TokenManager.transfer_token
transfer_token(token, to_address, amount) ==
    IF to_address = Unprintable
    THEN Raised(Exc("RuntimeError", "__repr__", "none"))
    ELSE Returned([token |-> token,
                   from |-> wallet.address,
                   to |-> to_address,
                   amount |-> amount,
                   timestamp |-> Timestamp(now)])

\* A caller runs token_manager.create_token(token_name, total_supply).
CallCreateToken(token_name, total_supply) ==
    /\ Len(tokens) < MaxTokens
    /\ LET r == create_token(token_name, total_supply)
           call == [NoTokenCall EXCEPT !.op = "create_token", !.token_name = token_name,
                                       !.total_supply = total_supply]
       IN  IF r.raised
           THEN /\ tokenLast' = [call EXCEPT !.raised = TRUE]
                /\ UNCHANGED tokens
           ELSE /\ tokenLast' = [call EXCEPT !.ret = r.value]
                /\ tokens' = Append(tokens, r.value)
    /\ UNCHANGED <<wallets, txVars, lVars>>

\* A caller runs token_manager.transfer_token(token, to_address, amount) on a
\* token that create_token returned.
CallTransferToken(i, to_address, amount) ==
    /\ i \in 1..Len(tokens)
    /\ LET r == transfer_token(tokens[i], to_address, amount)
           call == [NoTokenCall EXCEPT !.op = "transfer_token",
                                       !.token_name = tokens[i].token_name,
                                       !.total_supply = tokens[i].total_supply,
                                       !.amount = amount]
       IN  tokenLast' = IF r.raised THEN [call EXCEPT !.raised = TRUE]
                        ELSE [call EXCEPT !.ret = r.value]
    /\ UNCHANGED <<tokens, wallets, txVars, lVars>>

InitToken ==
    /\ TxInit
    /\ RETRY_ATTEMPTS = DefaultAttempts
    /\ wallet = WalletInit(None)
    /\ arg = NoArg
    /\ ListenerInit
    /\ ManagersInit
    /\ pc = [c \in Calls |-> "unused"]

NextToken ==
    \/ \E token_name \in TokenNames, total_supply \in Supplies :
            CallCreateToken(token_name, total_supply)
    \/ \E i \in 1..MaxTokens, to_address \in Addresses \cup {Unprintable}, amount \in Amounts :
            CallTransferToken(i, to_address, amount)
    \/ Tick

SpecToken == InitToken /\ [][NextToken]_vars

\* C15: create_token raises and returns no token when the name is empty or
\* the total supply is not positive; transfer_token raises and returns no
\* transfer when the amount is not positive.
C15_TokenInputValidated ==
    /\ (tokenLast.op = "create_token"
            /\ (tokenLast.token_name = "" \/ tokenLast.total_supply <= 0))
         => (tokenLast.raised /\ tokenLast.ret = NoDict)
    /\ (tokenLast.op = "transfer_token" /\ tokenLast.amount <= 0)
         => (tokenLast.raised /\ tokenLast.ret = NoDict)

\* ------------------------------------------------------ constructing wallets
\* A caller runs Wallet(private_key).
NewWallet(private_key) ==
    /\ Len(wallets) < MaxWallets
    /\ wallets' = Append(wallets, [arg |-> private_key, obj |-> WalletInit(private_key)])
    /\ UNCHANGED <<tokens, tokenLast, txVars, lVars>>

InitWallet ==
    /\ TxInit
    /\ RETRY_ATTEMPTS = DefaultAttempts
    /\ wallet = WalletInit(None)
    /\ arg = NoArg
    /\ ListenerInit
    /\ ManagersInit
    /\ pc = [c \in Calls |-> "unused"]

NextWallet == \E private_key \in Keys : NewWallet(private_key)

SpecWallet == InitWallet /\ [][NextWallet]_vars

\* C16: the address is a function of the private key: two wallets that hold
\* the same private key have the same address, whether the key was passed
\* to the constructor or generated by it.
C16_AddressFromKey ==
    \A i, j \in 1..Len(wallets) :
        wallets[i].obj.private_key = wallets[j].obj.private_key
            => wallets[i].obj.address = wallets[j].obj.address

====
